---- MODULE Spec2Model ----
(***************************************************************************)
(* A model of arduino-mass-builder.py: the `build` command (do_compile),   *)
(* which compiles sketches and writes one build.json marker per record     *)
(* directory, and the `report` command (find_builds, create_report_data,   *)
(* add_extra_info, add_delta_info, build_report_row), which scans the      *)
(* markers, measures the artifacts, compares against a base buildset and   *)
(* writes data.csv.                                                        *)
(*                                                                         *)
(* A Python dict is a function whose DOMAIN is the set of keys present, so *)
(* that "the field is absent" is a fact of the model.                      *)
(***************************************************************************)
EXTENDS Integers, Sequences, FiniteSets, TLC

VARIABLES
    files,      \* the markers on disk: record directory -> content of its build.json
                \*   (<<>> an empty file, <<b>> the complete JSON object b)
    dirs,       \* the record directories that exist on disk
    pc,         \* report: "scan", "delta", "render", "done", "aborted", or "off"
    walk,       \* report: the marker directories os.walk has not reached yet
    data,       \* report: the dataset, key -> build
    data0,      \* report: the dataset as create_report_data returned it
    buildsets,  \* report: the buildset names seen
    yielded,    \* report: what find_builds yielded so far, as processed records
    base,       \* report: opts.base_set ("" when none)
    todo,       \* report: the keys add_delta_info's loop has not visited yet
    stderr,     \* report: the warnings written to stderr
    raised,     \* report: the exception that ended the run ("" when none)
    csv,        \* report: the rows written to data.csv
    bpc,        \* build: position of the build command
    job,        \* build: the options of the running build command
    queue,      \* build: the (sketch, board) pairs do_compile is still to be called for
    res,        \* build: the exit code run_command returned
    runs,       \* build: the number of build commands started
    requested,  \* build: the (buildset, sketch, board) combinations of completed runs
    observed    \* build: the marker contents a concurrent find_builds has read

vars == <<files, dirs, pc, walk, data, data0, buildsets, yielded, base, todo,
          stderr, raised, csv, bpc, job, queue, res, runs, requested, observed>>

reportVars == <<pc, walk, data, data0, buildsets, yielded, base, todo, stderr,
                raised, csv>>
buildVars == <<bpc, job, queue, res, runs, requested>>

-----------------------------------------------------------------------------
(* Bounds and input domains *)

MaxMarkers == 2     \* markers on disk when a full report run starts
MaxRecords == 3     \* records of the dataset handed to add_delta_info
MaxRuns == 2        \* build commands run one after the other
MaxSketches == 2    \* sketches named on one build command line
MaxReads == 1       \* markers read by the report that runs next to the builds

Buildsets == {"base", "next"}
BaseOptions == {"", "base", "next"}            \* --base-set ("" when not given)
ResultsDirs == {".", "old"}   \* --results-dir of a build, relative to the report's
Digests == {"h1", "h2"}       \* sha1 hex digests of two different hex files

\* the strings used as key parts, in the order Python's < puts them
Alphabet == <<"alt", "base", "blink", "fade", "mega", "next", "uno">>

-----------------------------------------------------------------------------
(* Python dicts *)

Has(d, k) == k \in DOMAIN d
Put(d, k, v) == [x \in DOMAIN d \cup {k} |-> IF x = k THEN v ELSE d[x]]
EmptyDict == [x \in {} |-> 0]

\* build.get(attr, ''): a cell is <<>> for '' and <<v>> for a value
Get(d, k) == IF Has(d, k) THEN <<d[k]>> ELSE <<>>

KeyOf(build) == <<build["buildset"], build["sketch_dir"], build["board"]>>

\* the dict do_compile dumps into build.json
Marker(buildset, sketch_dir, sketch_name, board, exit_code) ==
    [exit_code |-> exit_code, sketch_dir |-> sketch_dir, sketch_name |-> sketch_name,
     board |-> board, buildset |-> buildset]

\* results_dir / buildset / sketch.parent / board
ResultDir(results_dir, buildset, sketch_dir, board) ==
    <<results_dir, buildset, sketch_dir, board>>

-----------------------------------------------------------------------------
(* add_extra_info *)

\* a line of avr-size -C output: "<label>: <digits> bytes<tail>"
Line(label, digits, tail) == [label |-> label, digits |-> digits, tail |-> tail]

Header == Line("AVR Memory Usage", <<>>, "")

ToolOutcomes ==
    { [kind |-> "missing", lines |-> <<>>],          \* avr-size is not installed
      [kind |-> "error", lines |-> <<>>],            \* avr-size exits non-zero (no ELF)
      [kind |-> "output", lines |-> <<Header, Line("Program", <<7>>, ""),
                                      Line("Data", <<7>>, "")>>],
      [kind |-> "output", lines |-> <<Header, Line("Program", <<1, 2>>, ""),
                                      Line("Data", <<3>>, "")>>],
      [kind |-> "output", lines |-> <<Header, Line("Data", <<7>>, "")>>],
      [kind |-> "output", lines |-> <<Header, Line("Program", <<7>>, ""),
                                      Line("Data", <<7>>, " (0.3% Full)")>>],
      [kind |-> "output", lines |-> <<Line("Program", <<>>, ""),
                                      Line("Data", <<7>>, "")>>] }

HexOutcomes ==
    { [kind |-> "missing", digest |-> ""] } \cup
    { [kind |-> "file", digest |-> h] : h \in Digests }

\* int(match.group(1)) on a non-empty string of decimal digits
RECURSIVE ParseInt(_)
ParseInt(digits) ==
    IF digits = <<>> THEN 0
    ELSE 10 * ParseInt(SubSeq(digits, 1, Len(digits) - 1)) + digits[Len(digits)]

\* re.match(b'^<label>: *([0-9]*) bytes$', line)
Matches(label, line) == line.label = label /\ line.tail = ""

\* one pass of the loop body of lines 164-169 over one line
ParseLine(r, line) ==
    IF r.raised # "" THEN r
    ELSE
      LET p == IF Matches("Program", line)
               THEN IF line.digits = <<>>
                    THEN [raised |-> "ValueError", build |-> r.build]
                    ELSE [raised |-> "",
                          build |-> Put(r.build, "program_size", ParseInt(line.digits))]
               ELSE r
      IN IF p.raised # "" THEN p
         ELSE IF Matches("Data", line)
              THEN IF line.digits = <<>>
                   THEN [raised |-> "ValueError", build |-> p.build]
                   ELSE [raised |-> "",
                         build |-> Put(p.build, "data_size", ParseInt(line.digits))]
              ELSE p

RECURSIVE ParseLines(_, _)
ParseLines(r, lines) ==
    IF lines = <<>> THEN r ELSE ParseLines(ParseLine(r, Head(lines)), Tail(lines))

\* add_extra_info(path, build): the exception it raises ("" when it returns)
\* and the record as it leaves it
AddExtraInfo(build, tool, hex) ==
    IF tool.kind = "missing" THEN [raised |-> "FileNotFoundError", build |-> build]
    ELSE IF tool.kind = "error" THEN [raised |-> "CalledProcessError", build |-> build]
    ELSE
      LET sized == ParseLines([raised |-> "", build |-> build], tool.lines)
      IN IF sized.raised # "" THEN sized
         ELSE IF hex.kind = "missing"
              THEN [raised |-> "FileNotFoundError", build |-> sized.build]
              ELSE [raised |-> "", build |-> Put(sized.build, "hash", hex.digest)]

-----------------------------------------------------------------------------
(* create_report_data *)

\* the loop body, lines 240-250: the status of one yielded record
ProcessRecord(build, tool, hex) ==
    LET b1 == IF build["exit_code"] # 0
              THEN Put(build, "status", "Failed to compile")
              ELSE build
        r2 == IF ~Has(b1, "status")
              THEN LET e == AddExtraInfo(b1, tool, hex)
                   IN IF e.raised = "CalledProcessError"
                      THEN [raised |-> "",
                            build |-> Put(e.build, "status", "Failed to get size")]
                      ELSE e
              ELSE [raised |-> "", build |-> b1]
    IN IF r2.raised # "" THEN r2
       ELSE IF ~Has(r2.build, "status")
            THEN [raised |-> "", build |-> Put(r2.build, "status", "OK")]
            ELSE r2

\* Insert keeping the record that is already there
InsertKeepFirst(d, build) ==
    IF Has(d, KeyOf(build)) THEN d ELSE Put(d, KeyOf(build), build)

\* line 252: data[(buildset, sketch_dir, board)] = build
Insert(d, build) == Put(d, KeyOf(build), build)

-----------------------------------------------------------------------------
(* add_delta_info *)

DeltaResult(d, exc, warning) == [data |-> d, raised |-> exc, warning |-> warning]

\* DeltaStatus with the two mixed outcomes taken for each other
DeltaStatusFlipped(build, base_build) ==
    IF build["status"] = "OK" /\ base_build["status"] = "OK"
    THEN IF build["hash"] = base_build["hash"] THEN "Identical" ELSE "Modified"
    ELSE IF build["status"] = "OK" THEN "Broken"
    ELSE IF base_build["status"] = "OK" THEN "Fixed"
    ELSE "Still broken"

\* lines 197-208: the status transition of a record against its base record
DeltaStatus(build, base_build) ==
    IF build["status"] = "OK" /\ base_build["status"] = "OK"
    THEN IF build["hash"] = base_build["hash"] THEN "Identical" ELSE "Modified"
    ELSE IF build["status"] = "OK" THEN "Fixed"
    ELSE IF base_build["status"] = "OK" THEN "Broken"
    ELSE "Still broken"

\* AnnotateBase without the test of the status
AnnotateBaseAlways(build) ==
    Put(Put(Put(build, "delta_status", "Is base"), "delta_program_size", 0),
        "delta_data_size", 0)

\* AnnotateBase storing the zeros under the names of the sizes themselves
AnnotateBaseInPlace(build) ==
    LET b1 == Put(build, "delta_status", "Is base")
    IN IF b1["status"] = "OK"
       THEN Put(Put(b1, "program_size", 0), "data_size", 0)
       ELSE b1

\* lines 178-188: the record of the base buildset itself
AnnotateBase(build) ==
    LET b1 == Put(build, "delta_status", "Is base")
    IN IF b1["status"] = "OK"
       THEN Put(Put(b1, "delta_program_size", 0), "delta_data_size", 0)
       ELSE b1

\* AnnotateSizes subtracting the wrong way round
AnnotateSizesReversed(d, key, build, base_build) ==
    IF build["status"] = "OK" /\ base_build["status"] = "OK"
    THEN IF ~Has(build, "program_size") \/ ~Has(base_build, "program_size")
         THEN DeltaResult(Put(d, key, build), "KeyError", <<>>)
         ELSE LET b1 == Put(build, "delta_program_size",
                            base_build["program_size"] - build["program_size"])
              IN IF ~Has(b1, "data_size") \/ ~Has(base_build, "data_size")
                 THEN DeltaResult(Put(d, key, b1), "KeyError", <<>>)
                 ELSE DeltaResult(
                        Put(d, key, Put(b1, "delta_data_size",
                                        base_build["data_size"] - b1["data_size"])),
                        "", <<>>)
    ELSE DeltaResult(Put(d, key, build), "", <<>>)

\* lines 210-212: the size deltas, with the KeyError of a size that is not there
AnnotateSizes(d, key, build, base_build) ==
    IF build["status"] = "OK" /\ base_build["status"] = "OK"
    THEN IF ~Has(build, "program_size") \/ ~Has(base_build, "program_size")
         THEN DeltaResult(Put(d, key, build), "KeyError", <<>>)
         ELSE LET b1 == Put(build, "delta_program_size",
                            build["program_size"] - base_build["program_size"])
              IN IF ~Has(b1, "data_size") \/ ~Has(base_build, "data_size")
                 THEN DeltaResult(Put(d, key, b1), "KeyError", <<>>)
                 ELSE DeltaResult(
                        Put(d, key, Put(b1, "delta_data_size",
                                        b1["data_size"] - base_build["data_size"])),
                        "", <<>>)
    ELSE DeltaResult(Put(d, key, build), "", <<>>)

\* AnnotateOther without the try/except around the lookup of the base record
AnnotateOtherUncaught(d, b, key, build) ==
    LET base_key == <<b, build["sketch_dir"], build["board"]>>
    IN IF ~Has(d, base_key)
       THEN DeltaResult(Put(d, key, build), "KeyError", <<>>)
       ELSE AnnotateSizes(d, key,
                Put(build, "delta_status", DeltaStatus(build, d[base_key])),
                d[base_key])

\* lines 189-212: a record of another buildset
AnnotateOther(d, b, key, build) ==
    LET base_key == <<b, build["sketch_dir"], build["board"]>>
    IN IF ~Has(d, base_key)
       THEN DeltaResult(Put(d, key, Put(build, "delta_status", "No base")), "",
                        <<KeyOf(build)>>)
       ELSE LET base_build == d[base_key]
            IN IF build["status"] = "OK" /\ base_build["status"] = "OK"
                  /\ (~Has(build, "hash") \/ ~Has(base_build, "hash"))
               THEN DeltaResult(Put(d, key, build), "KeyError", <<>>)
               ELSE AnnotateSizes(d, key,
                        Put(build, "delta_status", DeltaStatus(build, base_build)),
                        base_build)

\* one pass of the loop body of add_delta_info (lines 178-212) on data[key]
DeltaVisit(d, b, key) ==
    LET b1 == Put(d[key], "is_base", IF d[key]["buildset"] = b THEN "Yes" ELSE "No")
    IN IF b1["buildset"] = b
       THEN DeltaResult(Put(d, key, AnnotateBase(b1)), "", <<>>)
       ELSE AnnotateOther(d, b, key, b1)

\* add_delta_info(data, base), visiting the keys in the given order
RECURSIVE AddDeltaInfo(_, _, _)
AddDeltaInfo(d, b, order) ==
    IF order = <<>> THEN DeltaResult(d, "", <<>>)
    ELSE LET r == DeltaVisit(d, b, Head(order))
         IN IF r.raised # "" THEN r
            ELSE LET rest == AddDeltaInfo(r.data, b, Tail(order))
                 IN DeltaResult(rest.data, rest.raised, r.warning \o rest.warning)

-----------------------------------------------------------------------------
(* report *)

Rank(s) == CHOOSE i \in 1..Len(Alphabet) : Alphabet[i] = s

\* Python's < on key tuples
KeyLess(k1, k2) ==
    \/ Rank(k1[1]) < Rank(k2[1])
    \/ k1[1] = k2[1] /\ Rank(k1[2]) < Rank(k2[2])
    \/ k1[1] = k2[1] /\ k1[2] = k2[2] /\ Rank(k1[3]) < Rank(k2[3])

\* the keys of sorted(data.items())
RECURSIVE SortedKeys(_)
SortedKeys(S) ==
    IF S = {} THEN <<>>
    ELSE LET m == CHOOSE x \in S : \A y \in S \ {x} : KeyLess(x, y)
         IN <<m>> \o SortedKeys(S \ {m})

report_attrs == <<"buildset", "sketch_dir", "board", "status", "program_size",
                  "data_size">>
delta_attrs == <<"delta_status", "delta_program_size", "delta_data_size", "is_base">>
\* (the source's Greek capital delta is written D here)
report_headers ==
    [buildset |-> "Buildset", sketch_dir |-> "Sketch", board |-> "Board",
     status |-> "Status", program_size |-> "Program size", data_size |-> "Data size",
     delta_status |-> "D status", delta_program_size |-> "D program size",
     delta_data_size |-> "D data size", is_base |-> "In base buildset"]

build_report_row(build, delta) ==
    LET row == [i \in 1..Len(report_attrs) |-> Get(build, report_attrs[i])]
    IN IF delta # ""
       THEN row \o [i \in 1..Len(delta_attrs) |-> Get(build, delta_attrs[i])]
       ELSE row

\* lines 146-148: the header row, then one row per item of sorted(data.items())
RenderRows(d, delta) ==
    LET keys == SortedKeys(DOMAIN d)
    IN <<build_report_row(report_headers, delta)>>
       \o [i \in 1..Len(keys) |-> build_report_row(d[keys[i]], delta)]

\* lines 136-137: the base buildset the report compares against
SelectBase(seen, base_set) ==
    IF Cardinality(seen) > 1 /\ base_set = "" /\ "base" \in seen THEN "base"
    ELSE base_set

-----------------------------------------------------------------------------
(* The report command, step by step *)

NoJob == [results_dir |-> "", buildset |-> "", force |-> FALSE, asked |-> <<>>]

BuildIdle ==
    /\ bpc = "off" /\ job = NoJob /\ queue = <<>> /\ res = 0 /\ runs = 0
    /\ requested = {} /\ observed = {}

ReportAbort(exc) ==
    /\ pc' = "aborted"
    /\ raised' = exc

\* find_builds yields the marker of directory p (lines 226-233), and the loop
\* body of create_report_data (lines 240-253) takes it into the dataset. What
\* avr-size prints and whether the hex file is there is the environment's.
Scan(p) ==
    /\ pc = "scan"
    /\ p \in walk
    /\ IF files[p] = <<>>
       THEN \* json.load of an empty file: a ValueError, named apart from int()'s
            /\ ReportAbort("JSONDecodeError")
            /\ UNCHANGED <<walk, data, buildsets, yielded>>
       ELSE \E tool \in ToolOutcomes, hex \in HexOutcomes :
              LET r == ProcessRecord(files[p][1], tool, hex)
              IN IF r.raised # ""
                 THEN /\ ReportAbort(r.raised)
                      /\ UNCHANGED <<walk, data, buildsets, yielded>>
                 ELSE /\ data' = Insert(data, r.build)
                      /\ buildsets' = buildsets \cup {r.build["buildset"]}
                      /\ yielded' = Append(yielded, r.build)
                      /\ walk' = walk \ {p}
                      /\ UNCHANGED <<pc, raised>>
    /\ UNCHANGED <<files, dirs, data0, base, todo, stderr, csv>>
    /\ UNCHANGED <<buildVars, observed>>

\* create_report_data has returned; report() settles the base buildset
\* (lines 135-140) and enters add_delta_info when there is one
Compare(base_set) ==
    /\ pc = "scan"
    /\ walk = {}
    /\ base' = SelectBase(buildsets, base_set)
    /\ data0' = data
    /\ IF base' # ""
       THEN pc' = "delta" /\ todo' = DOMAIN data
       ELSE pc' = "render" /\ todo' = {}
    /\ UNCHANGED <<files, dirs, walk, data, buildsets, yielded, stderr, raised, csv>>
    /\ UNCHANGED <<buildVars, observed>>

\* one iteration of the loop of add_delta_info; data.items() hands out the
\* keys in insertion order, which is the order os.walk found the markers in
Visit(key) ==
    /\ pc = "delta"
    /\ key \in todo
    /\ LET r == DeltaVisit(data, base, key)
       IN /\ data' = r.data
          /\ stderr' = stderr \o r.warning
          /\ IF r.raised # ""
             THEN ReportAbort(r.raised) /\ UNCHANGED todo
             ELSE todo' = todo \ {key} /\ UNCHANGED <<pc, raised>>
    /\ UNCHANGED <<files, dirs, walk, data0, buildsets, yielded, base, csv>>
    /\ UNCHANGED <<buildVars, observed>>

\* add_delta_info returns
Compared ==
    /\ pc = "delta"
    /\ todo = {}
    /\ pc' = "render"
    /\ UNCHANGED <<files, dirs, walk, data, data0, buildsets, yielded, base, todo,
                   stderr, raised, csv>>
    /\ UNCHANGED <<buildVars, observed>>

\* lines 145-148: data.csv is written
Render ==
    /\ pc = "render"
    /\ csv' = RenderRows(data, base)
    /\ pc' = "done"
    /\ UNCHANGED <<files, dirs, walk, data, data0, buildsets, yielded, base, todo,
                   stderr, raised>>
    /\ UNCHANGED <<buildVars, observed>>

ReportStart ==
    /\ pc = "scan" /\ walk = DOMAIN files /\ data = EmptyDict /\ data0 = EmptyDict
    /\ buildsets = {} /\ yielded = <<>> /\ base = "" /\ todo = {}
    /\ stderr = <<>> /\ raised = "" /\ csv = <<>>

\* The markers a report may find under its results directory: those of builds
\* run with --results-dir set to that directory or to a directory below it.
ReportPaths ==
    { ResultDir(rd, bs, "blink", "uno") : rd \in ResultsDirs, bs \in Buildsets }

MarkerAt(p, exit_code) == Marker(p[2], p[3], p[3], p[4], exit_code)

Init ==
    /\ \E P \in SUBSET ReportPaths :
         /\ Cardinality(P) <= MaxMarkers
         /\ \E c \in [P -> {"ok", "failed", "empty"}] :
              files = [p \in P |->
                         IF c[p] = "empty" THEN <<>>
                         ELSE <<MarkerAt(p, IF c[p] = "ok" THEN 0 ELSE 1)>>]
    /\ dirs = DOMAIN files
    /\ ReportStart
    /\ BuildIdle

Next ==
    \/ \E p \in ReportPaths : Scan(p)
    \/ \E b \in BaseOptions : Compare(b)
    \/ \E k \in DOMAIN data : Visit(k)
    \/ Compared
    \/ Render

Spec == Init /\ [][Next]_vars

-----------------------------------------------------------------------------
(* The report command from the point where create_report_data has returned, *)
(* over every dataset it can return for up to MaxRecords markers            *)

DeltaKeys == { <<"base", "blink", "uno">>, <<"next", "blink", "uno">>,
               <<"alt", "blink", "uno">>, <<"next", "fade", "uno">> }

\* What happened to one marker: the compiler's exit code, avr-size's outcome
\* and the hex file. Inputs that differ only in what the code never looks at
\* are taken once (a failed compile is not measured, a failed avr-size leaves
\* the hex file unread). Inputs on which create_report_data raises return no
\* dataset.
Measurements ==
    { m \in [exit_code : {0, 1}, tool : ToolOutcomes, hex : HexOutcomes] :
        /\ m.exit_code # 0 => m.tool.kind = "error"
        /\ m.tool.kind = "error" => m.hex.kind = "missing"
        /\ ProcessRecord(Marker("base", "blink", "blink", "uno", m.exit_code),
                         m.tool, m.hex).raised = "" }

Measured(key, m) ==
    ProcessRecord(Marker(key[1], key[2], key[2], key[3], m.exit_code), m.tool, m.hex).build

InitDelta ==
    /\ \E K \in SUBSET DeltaKeys :
         /\ Cardinality(K) <= MaxRecords
         /\ \E m \in [K -> Measurements] :
              /\ data = [k \in K |-> Measured(k, m[k])]
              /\ files = [p \in { ResultDir(".", k[1], k[2], k[3]) : k \in K } |->
                            <<Marker(p[2], p[3], p[3], p[4],
                                     m[<<p[2], p[3], p[4]>>].exit_code)>>]
    /\ dirs = DOMAIN files
    /\ pc = "scan" /\ walk = {} /\ data0 = EmptyDict
    /\ buildsets = { k[1] : k \in DOMAIN data }
    /\ yielded = [i \in 1..Cardinality(DOMAIN data) |-> data[SortedKeys(DOMAIN data)[i]]]
    /\ base = "" /\ todo = {} /\ stderr = <<>> /\ raised = "" /\ csv = <<>>
    /\ BuildIdle

NextDelta ==
    \/ \E b \in BaseOptions : Compare(b)
    \/ \E k \in DOMAIN data : Visit(k)
    \/ Compared
    \/ Render

SpecDelta == InitDelta /\ [][NextDelta]_vars

-----------------------------------------------------------------------------
(* Properties of add_delta_info *)

\* add_delta_info(data, base) was called and has returned
Annotated == base # "" /\ pc \in {"render", "done"}

BaseKey(k) == <<base, k[2], k[3]>>
IsOK(k) == data0[k]["status"] = "OK"
HasDeltas(b) == Has(b, "delta_program_size") \/ Has(b, "delta_data_size")

\* C1: once add_delta_info has returned, a record of another buildset whose
\* base record exists is Identical, Modified, Fixed, Broken or Still broken as
\* the two statuses and the two hashes say.
DeltaStatusByMatrix ==
    Annotated =>
      \A k \in DOMAIN data :
        (k[1] # base /\ BaseKey(k) \in DOMAIN data) =>
          /\ Has(data[k], "delta_status")
          /\ (IsOK(k) /\ IsOK(BaseKey(k))
                /\ data0[k]["hash"] = data0[BaseKey(k)]["hash"])
               => data[k]["delta_status"] = "Identical"
          /\ (IsOK(k) /\ IsOK(BaseKey(k))
                /\ data0[k]["hash"] # data0[BaseKey(k)]["hash"])
               => data[k]["delta_status"] = "Modified"
          /\ (IsOK(k) /\ ~IsOK(BaseKey(k))) => data[k]["delta_status"] = "Fixed"
          /\ (~IsOK(k) /\ IsOK(BaseKey(k))) => data[k]["delta_status"] = "Broken"
          /\ (~IsOK(k) /\ ~IsOK(BaseKey(k)))
               => data[k]["delta_status"] = "Still broken"

\* a returned run in which one record was fixed and another is still broken
DeltaStatusWitness ==
    /\ Annotated
    /\ \E k1, k2 \in DOMAIN data :
         /\ k1[1] # base /\ BaseKey(k1) \in DOMAIN data
         /\ k2[1] # base /\ BaseKey(k2) \in DOMAIN data
         /\ IsOK(k1) /\ data0[BaseKey(k1)]["status"] = "Failed to compile"
         /\ data[k1]["delta_status"] = "Fixed"
         /\ ~IsOK(k2)
         /\ data[k2]["delta_status"] = "Still broken"

\* C2: once add_delta_info has returned, a record of another buildset has the
\* two size deltas exactly when it and its base record are both OK, and each
\* delta is the record's size minus the base record's size.
SizeDeltasIffBothOK ==
    Annotated =>
      \A k \in DOMAIN data :
        k[1] # base =>
          LET both == /\ BaseKey(k) \in DOMAIN data
                      /\ IsOK(k) /\ IsOK(BaseKey(k))
          IN /\ Has(data[k], "delta_program_size") <=> both
             /\ Has(data[k], "delta_data_size") <=> both
             /\ both =>
                  /\ data[k]["delta_program_size"] =
                       data0[k]["program_size"] - data0[BaseKey(k)]["program_size"]
                  /\ data[k]["delta_data_size"] =
                       data0[k]["data_size"] - data0[BaseKey(k)]["data_size"]

\* a returned run with a negative and a positive delta on one record, next to
\* a record that was broken and carries none
SizeDeltasWitness ==
    /\ Annotated
    /\ \E k1, k2 \in DOMAIN data :
         /\ k1[1] # base /\ k2[1] # base
         /\ Has(data[k1], "delta_program_size")
         /\ data[k1]["delta_program_size"] < 0
         /\ data[k1]["delta_data_size"] > 0
         /\ data[k2]["delta_status"] = "Broken"
         /\ ~HasDeltas(data[k2])

\* C3: once add_delta_info has returned, every record of the base buildset is
\* "Is base" with is_base "Yes", with both deltas 0 when it is OK and neither
\* delta when it is not.
BaseRecordsAreBase ==
    Annotated =>
      \A k \in DOMAIN data :
        k[1] = base =>
          /\ Has(data[k], "delta_status") /\ data[k]["delta_status"] = "Is base"
          /\ Has(data[k], "is_base") /\ data[k]["is_base"] = "Yes"
          /\ IsOK(k) => /\ Has(data[k], "delta_program_size")
                        /\ data[k]["delta_program_size"] = 0
                        /\ Has(data[k], "delta_data_size")
                        /\ data[k]["delta_data_size"] = 0
          /\ ~IsOK(k) => ~HasDeltas(data[k])

\* a returned run with an OK and a failed record in the base buildset
BaseRecordsWitness ==
    /\ Annotated
    /\ \E k1, k2 \in DOMAIN data :
         /\ k1[1] = base /\ k2[1] = base
         /\ IsOK(k1) /\ data[k1]["delta_data_size"] = 0
         /\ ~IsOK(k2) /\ data[k2]["delta_status"] = "Is base"

\* the record at k has no base record
NoBaseCase(k) == k[1] # base /\ BaseKey(k) \notin DOMAIN data

Warnings(k) == { i \in 1..Len(stderr) : stderr[i] = k }

\* C4: a record without a base record is marked "No base", is_base "No",
\* without size deltas, and warned about once on stderr; it never ends the
\* run: a run that ended in add_delta_info ended on a record that has a base
\* record, and a run that returned has annotated every record.
NoBaseIsRecovered ==
    base # "" =>
      /\ \A k \in DOMAIN data \ todo :
           NoBaseCase(k) =>
             /\ Has(data[k], "delta_status") /\ data[k]["delta_status"] = "No base"
             /\ Has(data[k], "is_base") /\ data[k]["is_base"] = "No"
             /\ ~HasDeltas(data[k])
             /\ Cardinality(Warnings(k)) = 1
      /\ pc = "aborted" => \E k \in todo : ~NoBaseCase(k) /\ k[1] # base
      /\ Annotated =>
           /\ todo = {}
           /\ \A k \in DOMAIN data : Has(data[k], "delta_status")

\* a returned run that warned about one record and compared another
NoBaseWitness ==
    /\ Annotated
    /\ \E k1, k2 \in DOMAIN data :
         /\ NoBaseCase(k1) /\ data[k1]["delta_status"] = "No base"
         /\ stderr = <<k1>>
         /\ ~NoBaseCase(k2) /\ k2[1] # base
         /\ data[k2]["delta_status"] \in {"Identical", "Modified"}

\* the fields of a record that the comparison of a record reads
ReadFields == {"buildset", "sketch_dir", "board", "status", "hash", "program_size",
               "data_size"}

\* C8: whatever the order of the visits, add_delta_info leaves what it leaves
\* when it visits the keys in ascending order, and it raises exactly when that
\* run raises; no visit changes a field that a comparison reads.
OrderIndependent ==
    base # "" =>
      LET canon == AddDeltaInfo(data0, base, SortedKeys(DOMAIN data0))
      IN /\ DOMAIN data = DOMAIN data0
         /\ \A k \in DOMAIN data : \A f \in ReadFields :
              Get(data[k], f) = Get(data0[k], f)
         /\ Annotated => canon.raised = "" /\ data = canon.data
         /\ pc = "aborted" => canon.raised # ""

\* a returned run over three records in which a size delta is not zero
OrderWitness ==
    /\ Annotated
    /\ Cardinality(DOMAIN data) = 3
    /\ \E k \in DOMAIN data :
         /\ k[1] # base /\ BaseKey(k) \in DOMAIN data
         /\ Has(data[k], "delta_program_size")
         /\ data[k]["delta_program_size"] # 0
         /\ data[BaseKey(k)]["delta_program_size"] = 0

-----------------------------------------------------------------------------
(* Properties of create_report_data and of the rendered report *)

Measures == {"program_size", "data_size", "hash"}

\* C5: in the dataset create_report_data returns, a record has program_size,
\* data_size and hash, all three, exactly when its status is OK, and none of
\* them otherwise.
MeasuresIffOK ==
    (walk = {} /\ pc # "aborted") =>
      \A k \in DOMAIN data :
        /\ data[k]["status"] = "OK" <=> \A f \in Measures : Has(data[k], f)
        /\ data[k]["status"] # "OK" => \A f \in Measures : ~Has(data[k], f)

\* C6: no failure of a measurement ends the report run, and every record
\* that compiled and could not be measured is "Failed to get size".
MeasurementFailureIsCaught ==
    /\ raised \notin {"FileNotFoundError", "ValueError"}
    /\ \A i \in 1..Len(yielded) :
         (yielded[i]["exit_code"] = 0 /\ \E f \in Measures : ~Has(yielded[i], f))
           => yielded[i]["status"] = "Failed to get size"

DataRows == Tail(csv)

\* C7 as claimed: data.csv has as many data rows as find_builds yielded
\* records.
OneRowPerScannedRecord ==
    pc = "done" => Len(DataRows) = Len(yielded)

YieldedKeys == { KeyOf(yielded[i]) : i \in 1..Len(yielded) }
LastYielded(k) ==
    yielded[CHOOSE i \in 1..Len(yielded) :
              /\ KeyOf(yielded[i]) = k
              /\ \A j \in (i + 1)..Len(yielded) : KeyOf(yielded[j]) # k]
RowsOf(k) ==
    { j \in 1..Len(DataRows) :
        <<DataRows[j][1], DataRows[j][2], DataRows[j][3]>> = <<<<k[1]>>, <<k[2]>>, <<k[3]>>>> }

\* C7 as amended: data.csv has one data row for each key among the yielded
\* records, showing the record yielded last with that key, and no other row;
\* so it has one row per yielded record when their keys differ.
OneRowPerScannedKey ==
    pc = "done" =>
      /\ Len(DataRows) = Cardinality(YieldedKeys)
      /\ \A k \in YieldedKeys :
           /\ Cardinality(RowsOf(k)) = 1
           /\ \A j \in RowsOf(k) :
                /\ DataRows[j][4] = Get(LastYielded(k), "status")
                /\ DataRows[j][5] = Get(LastYielded(k), "program_size")
                /\ DataRows[j][6] = Get(LastYielded(k), "data_size")
      /\ (\A i, j \in 1..Len(yielded) : KeyOf(yielded[i]) = KeyOf(yielded[j]) => i = j)
           => Len(DataRows) = Len(yielded)

\* a report of two markers with one key, an OK one yielded first and a failed
\* one yielded last, that has the one row of the failed one
OneRowPerKeyWitness ==
    /\ pc = "done"
    /\ Len(yielded) = 2
    /\ KeyOf(yielded[1]) = KeyOf(yielded[2])
    /\ yielded[1]["status"] = "OK"
    /\ yielded[2]["status"] = "Failed to compile"
    /\ Len(DataRows) = 1
    /\ DataRows[1][4] = <<"Failed to compile">>

-----------------------------------------------------------------------------
(* The build command, step by step, with a report scanning next to it *)

\* a sketch file <parent>/<stem>.ino named on the command line
Sketch(parent, stem) == [parent |-> parent, stem |-> stem]

Sketches == { Sketch("blink", "blink"), Sketch("blink", "extra"),
              Sketch("..", "blink") }

\* --boards, as the runs of characters re.split looks at: a name, or one
\* separator character
Separators == {",", " "}
BoardOptions == { <<"uno">>, <<"uno", ",", " ", "mega">> }

\* line 120: re.split('[\s,]+', boards)
RECURSIVE Split(_, _, _)
Split(chars, word, inRun) ==
    IF chars = <<>> THEN <<word>>
    ELSE IF Head(chars) \in Separators
         THEN IF inRun THEN Split(Tail(chars), word, TRUE)
              ELSE <<word>> \o Split(Tail(chars), "", TRUE)
         ELSE Split(Tail(chars), Head(chars), FALSE)

\* lines 121-123: the calls of do_compile, in order
RECURSIVE Calls(_, _)
Calls(sketches, boardlist) ==
    IF sketches = <<>> THEN <<>>
    ELSE [i \in 1..Len(boardlist) |-> <<Head(sketches), boardlist[i]>>]
         \o Calls(Tail(sketches), boardlist)

SketchLists == UNION { [1..n -> Sketches] : n \in 1..MaxSketches }

\* line 257 for the call at the head of the queue
sketch_result_dir ==
    ResultDir(job.results_dir, job.buildset, Head(queue)[1].parent, Head(queue)[2])

Remove(d, k) == [x \in DOMAIN d \ {k} |-> d[x]]

\* build(): lines 116-120
StartBuild(results_dir, buildset, force, sketches, boards) ==
    /\ bpc = "off"
    /\ runs < MaxRuns
    /\ runs' = runs + 1
    /\ IF \E i \in 1..Len(sketches) : sketches[i].parent = ".."
       THEN \* ctx.fail
            UNCHANGED <<bpc, job, queue>>
       ELSE /\ queue' = Calls(sketches, Split(boards, "", FALSE))
            /\ job' = [results_dir |-> results_dir, buildset |-> buildset,
                       force |-> force, asked |-> queue']
            /\ bpc' = "compile"
    /\ UNCHANGED <<files, dirs, res, requested, observed>>
    /\ UNCHANGED reportVars

\* do_compile: lines 257-272
Check ==
    /\ bpc = "compile"
    /\ queue # <<>>
    /\ IF sketch_result_dir \in dirs
       THEN IF ~Has(files, sketch_result_dir)
            THEN \* looks interrupted, removing
                 /\ dirs' = dirs \ {sketch_result_dir}
                 /\ bpc' = "mkdir"
                 /\ UNCHANGED <<files, queue>>
            ELSE IF job.force
                 THEN \* already exists, removing
                      /\ dirs' = dirs \ {sketch_result_dir}
                      /\ files' = Remove(files, sketch_result_dir)
                      /\ bpc' = "mkdir"
                      /\ UNCHANGED queue
                 ELSE \* already exists, skipping
                      /\ queue' = Tail(queue)
                      /\ UNCHANGED <<files, dirs, bpc>>
       ELSE /\ bpc' = "mkdir"
            /\ UNCHANGED <<files, dirs, queue>>
    /\ UNCHANGED <<job, res, runs, requested, observed>>
    /\ UNCHANGED reportVars

\* do_compile: line 274
Mkdir ==
    /\ bpc = "mkdir"
    /\ dirs' = dirs \cup {sketch_result_dir}
    /\ bpc' = "run"
    /\ UNCHANGED <<files, job, queue, res, runs, requested, observed>>
    /\ UNCHANGED reportVars

\* do_compile: lines 276-282; the compiler's exit code is the environment's
RunCommand(exit_code) ==
    /\ bpc = "run"
    /\ res' = exit_code
    /\ bpc' = "open"
    /\ UNCHANGED <<files, dirs, job, queue, runs, requested, observed>>
    /\ UNCHANGED reportVars

\* do_compile: line 291, json_file.open('w') creates build.json, empty
OpenMarker ==
    /\ bpc = "open"
    /\ files' = Put(files, sketch_result_dir, <<>>)
    /\ bpc' = "dump"
    /\ UNCHANGED <<dirs, job, queue, res, runs, requested, observed>>
    /\ UNCHANGED reportVars

\* do_compile: line 292 and the end of the with block: the JSON text reaches
\* the file when it is closed
DumpMarker ==
    /\ bpc = "dump"
    /\ files' = Put(files, sketch_result_dir,
                    <<Marker(job.buildset, Head(queue)[1].parent, Head(queue)[1].stem,
                             Head(queue)[2], res)>>)
    /\ queue' = Tail(queue)
    /\ bpc' = "compile"
    /\ UNCHANGED <<dirs, job, res, runs, requested, observed>>
    /\ UNCHANGED reportVars

Request(results_dir, buildset, call) ==
    [results_dir |-> results_dir, buildset |-> buildset, sketch |-> call[1],
     board |-> call[2]]
RequestDir(r) == ResultDir(r.results_dir, r.buildset, r.sketch.parent, r.board)

\* the loop of lines 121-123 is over: the build command ends
FinishBuild ==
    /\ bpc = "compile"
    /\ queue = <<>>
    /\ requested' = requested \cup
         { Request(job.results_dir, job.buildset, job.asked[i]) :
             i \in 1..Len(job.asked) }
    /\ bpc' = "off"
    /\ job' = NoJob
    /\ UNCHANGED <<files, dirs, queue, res, runs, observed>>
    /\ UNCHANGED reportVars

\* the build command is killed; a request whose record directory it was
\* working on is no longer one that only completed runs have touched
Interrupt ==
    /\ bpc # "off"
    /\ requested' = IF queue = <<>> THEN requested
                    ELSE { r \in requested : RequestDir(r) # sketch_result_dir }
    /\ bpc' = "off"
    /\ job' = NoJob
    /\ queue' = <<>>
    /\ UNCHANGED <<files, dirs, res, runs, observed>>
    /\ UNCHANGED reportVars

\* find_builds of a report running at the same time: os.walk lists build.json
\* in directory p and line 232-233 reads it
ScanRead(p) ==
    /\ Has(files, p)
    /\ Cardinality(observed) < MaxReads
    /\ observed' = observed \cup {files[p]}
    /\ UNCHANGED <<files, dirs>>
    /\ UNCHANGED buildVars
    /\ UNCHANGED reportVars

InitBuild ==
    /\ files = EmptyDict /\ dirs = {}
    /\ pc = "off" /\ walk = {} /\ data = EmptyDict /\ data0 = EmptyDict
    /\ buildsets = {} /\ yielded = <<>> /\ base = "" /\ todo = {}
    /\ stderr = <<>> /\ raised = "" /\ csv = <<>>
    /\ BuildIdle

NextBuild ==
    \/ \E rd \in ResultsDirs, bs \in {"base"}, force \in BOOLEAN,
          sketches \in SketchLists, boards \in BoardOptions :
         StartBuild(rd, bs, force, sketches, boards)
    \/ Check
    \/ Mkdir
    \/ \E exit_code \in {0, 1} : RunCommand(exit_code)
    \/ OpenMarker
    \/ DumpMarker
    \/ FinishBuild
    \/ Interrupt
    \/ \E p \in dirs : ScanRead(p)

SpecBuild == InitBuild /\ [][NextBuild]_vars

\* C9: a marker that a scan can see is the complete record of a finished
\* compile: find_builds never reads an empty or partial build.json.
MarkerIsAtomic ==
    \A content \in observed : Len(content) = 1

\* C10: when no build is running (and no interrupted build has left a torn
\* marker behind), every (buildset, sketch, board) that a completed build run
\* was asked for has its record: a complete marker of that sketch compiled
\* for that board.
OneRecordPerRequest ==
    (bpc = "off" /\ \A p \in DOMAIN files : files[p] # <<>>) =>
      \A r \in requested :
        /\ Has(files, RequestDir(r))
        /\ Len(files[RequestDir(r)]) = 1
        /\ files[RequestDir(r)][1]["sketch_name"] = r.sketch.stem
        /\ files[RequestDir(r)][1]["sketch_dir"] = r.sketch.parent
        /\ files[RequestDir(r)][1]["board"] = r.board
        /\ files[RequestDir(r)][1]["buildset"] = r.buildset

====
